---- MODULE Spec2Model ----
(***************************************************************************)
(* The structured logging facade (custom_logger/structured_log.py,         *)
(* class StructLogs) and the level lookup of the plain logger factory      *)
(* (custom_logger/logger.py, CustomLogger._set_level) as a state machine.  *)
(*                                                                         *)
(* Python strings are TLA+ strings; a dict is a sequence of <<key, value>> *)
(* pairs in insertion order, keyword arguments are a record; JSON text is  *)
(* the sequence of its tokens, string tokens carrying their quotes.        *)
(***************************************************************************)
EXTENDS Integers, Sequences, FiniteSets, TLC

VARIABLES
    environ,      \* os.environ restricted to SNS_FAILURE: a record with or without that field
    loggerDict,   \* logging.Logger.manager.loggerDict: logger name -> [level, handlers]
    facades,      \* the StructLogs instances constructed so far, in order
    clients,      \* the boto3 SNS clients constructed so far: [handle, owner]
    last,         \* what the most recent constructor or method call did
    level_call,   \* the most recent CustomLogger._set_level call: [name, result]
    threads       \* the threads sharing facade 1, each inside its exception call: [pc, made, used, lines]

vars == <<environ, loggerDict, facades, clients, last, level_call, threads>>

(***************************************************************************)
(* Bounds and inputs.                                                      *)
(***************************************************************************)
MaxFacades == 2
MaxThreads == 2

\* the (team, module) arguments given to the constructor: two spellings of one identity,
\* and the identity whose logger is the parent of theirs
Identities == {[team |-> "TEST", module |-> "Subscribe.LOG"],
               [team |-> "test", module |-> "subscribe.log"],
               [team |-> "test", module |-> "subscribe"]}
Levels == {10, 50}
Topics == {"arn:sns:failure", "arn:sns:other"}
Msgs == {"msg"}
Destinations == {"data_steward"}
\* what the transport does in one exception call: both calls return, boto3.client raises,
\* or publish raises
BotoOutcomes == {[client |-> "ok", publish |-> "ok"], [client |-> "raise", publish |-> "ok"],
                 [client |-> "ok", publish |-> "raise"]}

(***************************************************************************)
(* Python values.                                                          *)
(***************************************************************************)
None == "<None>"
NoError == "<no exception>"

\* bool(v) of an Optional[str] or an optional client handle
Truthy(v) == v # None /\ v # ""

UpperCase == "ABCDEFGHIJKLMNOPQRSTUVWXYZ"
LowerCase == "abcdefghijklmnopqrstuvwxyz"
CharAt(s, i) == SubSeq(s, i, i)

\* the letter-to-letter tables of str.lower and str.upper
ToLower == [c \in {CharAt(UpperCase, i) : i \in 1..Len(UpperCase)} |->
               CharAt(LowerCase, CHOOSE i \in 1..Len(UpperCase) : CharAt(UpperCase, i) = c)]
ToUpper == [c \in {CharAt(LowerCase, i) : i \in 1..Len(LowerCase)} |->
               CharAt(UpperCase, CHOOSE i \in 1..Len(LowerCase) : CharAt(LowerCase, i) = c)]

RECURSIVE MapStr(_, _)
MapStr(s, table) ==
    IF Len(s) = 0 THEN ""
    ELSE (IF CharAt(s, 1) \in DOMAIN table THEN table[CharAt(s, 1)] ELSE CharAt(s, 1))
         \o MapStr(SubSeq(s, 2, Len(s)), table)

\* a constructor that keeps the letter case of its arguments
lower_keeps_case(s) == s

\* str.lower and str.upper
lower(s) == MapStr(s, ToLower)
upper(s) == MapStr(s, ToUpper)

\* os.getenv(key, default)
getenv(key, default) == IF key \in DOMAIN environ THEN environ[key] ELSE default

\* a pop that never finds the key
pop_value_missing(kwargs, key, default) == default

\* kwargs.pop(key, default): the value, and the kwargs left
pop_value(kwargs, key, default) == IF key \in DOMAIN kwargs THEN kwargs[key] ELSE default
pop_rest(kwargs, key) == [k \in DOMAIN kwargs \ {key} |-> kwargs[k]]

NoKwargs == [k \in {} |-> ""]
KwargsInputs == {NoKwargs} \cup {[destination |-> d] : d \in Destinations}

(***************************************************************************)
(* json.dumps of a dict of strings (none of which needs escaping), as the  *)
(* token sequence of its text, string tokens carrying their quotes, and    *)
(* the reading of a key's value back from that text.                       *)
(***************************************************************************)
Quote(s) == "\"" \o s \o "\""
Unquote(t) == SubSeq(t, 2, Len(t) - 1)

RECURSIVE json_members(_)
json_members(d) ==
    IF Len(d) = 0 THEN <<>>
    ELSE <<Quote(d[1][1]), ":", Quote(d[1][2])>>
         \o (IF Len(d) = 1 THEN <<>> ELSE <<",">>)
         \o json_members(Tail(d))

json_dumps(d) == <<"{">> \o json_members(d) \o <<"}">>

\* the positions of the keys of a JSON object's text: "key" : "value" , from token 2 on
KeyPositions(text) == {i \in 2..(Len(text) - 1) : i % 4 = 2}

json_has(text, key) == \E i \in KeyPositions(text) : text[i] = Quote(key)

\* json.loads(text)[key] for a string member
json_get(text, key) ==
    Unquote(text[(CHOOSE i \in KeyPositions(text) : text[i] = Quote(key)) + 2])

dict_get(d, key) == d[CHOOSE i \in 1..Len(d) : d[i][1] = key][2]

(***************************************************************************)
(* The standard logging engine, as far as StructLogs drives it.            *)
(***************************************************************************)
nameToLevel == [NOTSET |-> 0, DEBUG |-> 10, INFO |-> 20, WARNING |-> 30,
                ERROR |-> 40, CRITICAL |-> 50]

\* logging.getLevelName(level) for an int level
getLevelName(level) ==
    IF \E n \in DOMAIN nameToLevel : nameToLevel[n] = level
    THEN CHOOSE n \in DOMAIN nameToLevel : nameToLevel[n] = level
    ELSE "Level " \o ToString(level)

\* logging.getLogger(name): the manager's dict with the logger created when missing
getLogger(mgr, name) ==
    IF name \in DOMAIN mgr THEN mgr
    ELSE mgr @@ (name :> [level |-> nameToLevel.NOTSET, handlers |-> <<>>])

\* a setLevel that keeps the level a logger already has
setLevel_first_wins(mgr, name, levelName) ==
    IF mgr[name].level # nameToLevel.NOTSET THEN mgr
    ELSE [mgr EXCEPT ![name].level = nameToLevel[levelName]]

\* Logger.setLevel(levelName) for a known level name
setLevel(mgr, name, levelName) == [mgr EXCEPT ![name].level = nameToLevel[levelName]]

\* Logger.addHandler(handler)
addHandler(mgr, name, handler) == [mgr EXCEPT ![name].handlers = Append(@, handler)]

\* whether logger name p is a dotted ancestor of logger name n
IsAncestor(p, n) == Len(p) < Len(n) /\ SubSeq(n, 1, Len(p) + 1) = p \o "."

RECURSIVE LongestFirst(_)
LongestFirst(S) ==
    IF S = {} THEN <<>>
    ELSE LET m == CHOOSE x \in S : \A y \in S : Len(y) <= Len(x)
         IN <<m>> \o LongestFirst(S \ {m})

\* the logger and its existing ancestors, nearest first (Logger.parent links)
LoggerChain(name) ==
    <<name>> \o LongestFirst({p \in DOMAIN loggerDict : IsAncestor(p, name)})

\* Logger.getEffectiveLevel: the first level set on the chain, the root's WARNING otherwise
getEffectiveLevel(name) ==
    LET chain == LoggerChain(name)
        set == {i \in 1..Len(chain) : loggerDict[chain[i]].level # nameToLevel.NOTSET}
    IN IF set = {} THEN nameToLevel.WARNING
       ELSE loggerDict[chain[CHOOSE i \in set : \A j \in set : i <= j]].level

isEnabledFor(name, level) == level >= getEffectiveLevel(name)

LevelnameField == Quote("%(levelname)s")
MessageField == Quote("%(message)s")
AsctimeField == Quote("%(asctime)s")

\* fmt % record.__dict__ on one token of the template
Substitute(token, record) ==
    IF token = LevelnameField THEN Quote(record.levelname)
    ELSE IF token = MessageField THEN Quote(record.msg)
    ELSE IF token = AsctimeField THEN Quote(record.asctime)
    ELSE token

\* Formatter.format: the template filled from the record, and whether the exception
\* text follows it
format(template, record) ==
    [json |-> [i \in DOMAIN template |-> Substitute(template[i], record)],
     exc_info |-> record.exc_info]

RECURSIVE handleAll(_, _)
handleAll(handlers, record) ==
    IF Len(handlers) = 0 THEN <<>>
    ELSE (IF record.levelno >= handlers[1].level
          THEN <<format(handlers[1].formatter, record)>> ELSE <<>>)
         \o handleAll(Tail(handlers), record)

RECURSIVE callChain(_, _)
callChain(chain, record) ==
    IF Len(chain) = 0 THEN <<>>
    ELSE handleAll(loggerDict[chain[1]].handlers, record) \o callChain(Tail(chain), record)

\* Logger.callHandlers: every handler of the logger and of its ancestors (propagate is on)
callHandlers(name, record) == callChain(LoggerChain(name), record)

LogKwargs == {"exc_info", "extra", "stack_info", "stacklevel"}

\* Logger.log(level, msg, **kwargs): the lines written and the exception raised
Logger_log(name, level, msg, kwargs) ==
    IF ~isEnabledFor(name, level) THEN [lines |-> <<>>, raised |-> NoError]
    ELSE IF ~(DOMAIN kwargs \subseteq LogKwargs) THEN [lines |-> <<>>, raised |-> "TypeError"]
    ELSE [lines |-> callHandlers(name,
                        [levelno |-> level, levelname |-> getLevelName(level), msg |-> msg,
                         asctime |-> "<utc>",
                         exc_info |-> pop_value(kwargs, "exc_info", FALSE)]),
          raised |-> NoError]

(***************************************************************************)
(* StructLogs.                                                             *)
(***************************************************************************)
get_struct_format(self) ==
    << <<"team", self._team>>, <<"module", self._module>>,
       <<"utc_time_stamp", "%(asctime)s">>, <<"message_type", "%(levelname)s">>,
       <<"message", "%(message)s">> >>

\* _set_formatter: the format template self._format, a function of the instance's names
_set_formatter(self) == json_dumps(get_struct_format(self))

\* __init__, lines 46-51: the fields of the new instance; _logger holds the logger's name
StructLogs_init(module, team, level) ==
    LET _team == lower(team)
        _module == lower(module)
        filename == _team \o "." \o _module
    IN [_team |-> _team,
        _module |-> _module,
        _failure_topic |-> getenv("SNS_FAILURE", None),
        _logger |-> filename,
        _level |-> getLevelName(level),
        _sns_client |-> None]

\* _add_stream_handler: a new StreamHandler on the instance's logger, every time
_add_stream_handler(self, mgr) ==
    addHandler(mgr, self._logger,
               [formatter |-> _set_formatter(self), level |-> nameToLevel[self._level]])

status(self, msg, kwargs) == Logger_log(self._logger, nameToLevel.INFO, msg, kwargs)
debug(self, msg, kwargs) == Logger_log(self._logger, nameToLevel.DEBUG, msg, kwargs)
info(self, msg, kwargs) == Logger_log(self._logger, nameToLevel.INFO, msg, kwargs)
warning(self, msg, kwargs) == Logger_log(self._logger, nameToLevel.WARNING, msg, kwargs)
error(self, msg, kwargs) == Logger_log(self._logger, nameToLevel.ERROR, msg, kwargs)
critical(self, msg, kwargs) == Logger_log(self._logger, nameToLevel.CRITICAL, msg, kwargs)

\* _format_sns_message: the attribute map and the body of the alert
_format_sns_message(self, level, message, snow_team) ==
    LET trace == "<traceback>"
        time_stamp == "<utc>"
        body == << <<"team", self._team>>, <<"module", self._module>>,
                   <<"traceback", trace>>, <<"utc_time_stamp", time_stamp>>,
                   <<"message_type", level>>, <<"message", message>>,
                   <<"snow_team", snow_team>> >>
        typed(v) == [DataType |-> "string", StringValue |-> v]
    IN [attr |-> << <<"team", typed(self._team)>>, <<"module", typed(self._module)>>,
                    <<"traceback", typed(trace)>>, <<"utc_time_stamp", typed(time_stamp)>>,
                    <<"message_type", typed(level)>>, <<"message", typed(message)>>,
                    <<"snow_team", typed(snow_team)>> >>,
        body |-> body]

\* the clients that instance number owner has constructed
ClientsOf(owner) == {c \in clients : c.owner = owner}

\* _set_sns_client under the outcome boto.client of boto3.client("sns"):
\* the instance afterwards, the clients constructed and the exception raised
_set_sns_client(self, owner, boto) ==
    IF boto.client = "raise"
    THEN [self |-> self, created |-> <<>>, raised |-> "BotoCoreError"]
    ELSE LET handle == "sns-client-" \o ToString(owner) \o "."
                           \o ToString(Cardinality(ClientsOf(owner)) + 1)
             client == [handle |-> handle, owner |-> owner]
         IN [self |-> [self EXCEPT !._sns_client = handle],
             created |-> <<client>>, raised |-> NoError]

\* a dispatch that publishes again after the first publish
_send_message_to_sns_twice(self, owner, body, attr, topic, boto) ==
    LET made == IF ~Truthy(self._sns_client)
                THEN _set_sns_client(self, owner, boto)
                ELSE [self |-> self, created |-> <<>>, raised |-> NoError]
        call == [client |-> made.self._sns_client, TopicArn |-> topic,
                 Message |-> body, MessageAttributes |-> attr]
    IN IF made.raised # NoError
       THEN [self |-> made.self, created |-> made.created, publishes |-> <<>>,
             raised |-> made.raised]
       ELSE [self |-> made.self, created |-> made.created, publishes |-> <<call, call>>,
             raised |-> IF boto.publish = "raise" THEN "ClientError" ELSE NoError]

\* a dispatch that constructs a client on every call
_send_message_to_sns_new_client(self, owner, body, attr, topic, boto) ==
    LET made == _set_sns_client(self, owner, boto)
    IN IF made.raised # NoError
       THEN [self |-> made.self, created |-> made.created, publishes |-> <<>>,
             raised |-> made.raised]
       ELSE [self |-> made.self, created |-> made.created,
             publishes |-> <<[client |-> made.self._sns_client, TopicArn |-> topic,
                              Message |-> body, MessageAttributes |-> attr]>>,
             raised |-> IF boto.publish = "raise" THEN "ClientError" ELSE NoError]

\* _send_message_to_sns under the outcomes boto of the transport's calls
_send_message_to_sns(self, owner, body, attr, topic, boto) ==
    LET made == IF ~Truthy(self._sns_client)
                THEN _set_sns_client(self, owner, boto)
                ELSE [self |-> self, created |-> <<>>, raised |-> NoError]
    IN IF made.raised # NoError
       THEN [self |-> made.self, created |-> made.created, publishes |-> <<>>,
             raised |-> made.raised]
       ELSE [self |-> made.self, created |-> made.created,
             publishes |-> <<[client |-> made.self._sns_client, TopicArn |-> topic,
                              Message |-> body, MessageAttributes |-> attr]>>,
             raised |-> IF boto.publish = "raise" THEN "ClientError" ELSE NoError]

NoDispatch(self) == [self |-> self, created |-> <<>>, publishes |-> <<>>, raised |-> NoError]

\* exception, dispatching to a topic other than the instance's own
exception_to_topic(self, owner, msg, kwargs, boto, topic) ==
    LET snow_team == pop_value(kwargs, "destination", "developer")
        rest == pop_rest(kwargs, "destination")
        sent == IF Truthy(topic)
                THEN LET m == _format_sns_message(self, "exception", msg, snow_team)
                     IN _send_message_to_sns(self, owner, json_dumps(m.body), m.attr,
                                             topic, boto)
                ELSE NoDispatch(self)
        logged == IF sent.raised # NoError
                  THEN [lines |-> <<>>, raised |-> sent.raised]
                  ELSE Logger_log(self._logger, nameToLevel.ERROR, msg,
                                  [k \in DOMAIN rest \cup {"exc_info"} |->
                                       IF k = "exc_info" THEN TRUE ELSE rest[k]])
    IN [self |-> sent.self, created |-> sent.created, publishes |-> sent.publishes,
        lines |-> logged.lines, raised |-> logged.raised,
        trace |-> [k \in DOMAIN sent.created |-> "client"]
                  \o [k \in DOMAIN sent.publishes |-> "publish"]
                  \o [k \in DOMAIN logged.lines |-> "write"]]

\* an exception that reads SNS_FAILURE when it is called
exception_rereads_topic(self, owner, msg, kwargs, boto) ==
    exception_to_topic(self, owner, msg, kwargs, boto, getenv("SNS_FAILURE", None))

\* an exception that falls back to a default topic when none is configured
exception_default_topic(self, owner, msg, kwargs, boto) ==
    exception_to_topic(self, owner, msg, kwargs, boto,
                       IF Truthy(self._failure_topic) THEN self._failure_topic
                       ELSE "arn:sns:default")

\* an exception that logs first and dispatches afterwards
exception_logs_first(self, owner, msg, kwargs, boto) ==
    LET snow_team == pop_value(kwargs, "destination", "developer")
        rest == pop_rest(kwargs, "destination")
        logged == Logger_log(self._logger, nameToLevel.ERROR, msg,
                             [k \in DOMAIN rest \cup {"exc_info"} |->
                                  IF k = "exc_info" THEN TRUE ELSE rest[k]])
        sent == IF Truthy(self._failure_topic) /\ logged.raised = NoError
                THEN LET m == _format_sns_message(self, "exception", msg, snow_team)
                     IN _send_message_to_sns(self, owner, json_dumps(m.body), m.attr,
                                             self._failure_topic, boto)
                ELSE NoDispatch(self)
    IN [self |-> sent.self, created |-> sent.created, publishes |-> sent.publishes,
        lines |-> logged.lines,
        raised |-> IF logged.raised # NoError THEN logged.raised ELSE sent.raised,
        trace |-> [k \in DOMAIN logged.lines |-> "write"]
                  \o [k \in DOMAIN sent.created |-> "client"]
                  \o [k \in DOMAIN sent.publishes |-> "publish"]]

\* exception(msg, exc_info=True, **kwargs): dispatch when a topic is configured, then log
exception(self, owner, msg, kwargs, boto) ==
    LET snow_team == pop_value(kwargs, "destination", "developer")
        rest == pop_rest(kwargs, "destination")
        sent == IF Truthy(self._failure_topic)
                THEN LET m == _format_sns_message(self, "exception", msg, snow_team)
                     IN _send_message_to_sns(self, owner, json_dumps(m.body), m.attr,
                                             self._failure_topic, boto)
                ELSE NoDispatch(self)
        logged == IF sent.raised # NoError
                  THEN [lines |-> <<>>, raised |-> sent.raised]
                  ELSE Logger_log(self._logger, nameToLevel.ERROR, msg,
                                  [k \in DOMAIN rest \cup {"exc_info"} |->
                                       IF k = "exc_info" THEN TRUE ELSE rest[k]])
    IN [self |-> sent.self, created |-> sent.created, publishes |-> sent.publishes,
        lines |-> logged.lines, raised |-> logged.raised,
        trace |-> [k \in DOMAIN sent.created |-> "client"]
                  \o [k \in DOMAIN sent.publishes |-> "publish"]
                  \o [k \in DOMAIN logged.lines |-> "write"]]

(***************************************************************************)
(* CustomLogger._set_level.                                                *)
(***************************************************************************)
\* _initialize_custom_levels: self._custom_levels = dict()
_initialize_custom_levels == <<>>

\* dict.keys() and dict.update(iterable of key/value pairs) on a record
dict_keys(d) == [i \in DOMAIN d |-> d[i][1]]
dict_update(d, pairs) ==
    [k \in DOMAIN d \cup {pairs[i][1] : i \in DOMAIN pairs} |->
        IF \E i \in DOMAIN pairs : pairs[i][1] = k
        THEN pairs[CHOOSE i \in DOMAIN pairs : pairs[i][1] = k][2]
        ELSE d[k]]

\* a lookup that compares the name as it is spelled
_set_level_case_sensitive(name) ==
    LET _d_levels == [DEBUG |-> 10, INFO |-> 20, WARNING |-> 30, ERROR |-> 40,
                      CRITICAL |-> 50]
    IN IF Truthy(name) /\ name \in DOMAIN _d_levels THEN _d_levels[name] ELSE 10

\* _set_level(name): the numeric level of a level name, 10 when the name is not one
_set_level(name) ==
    LET _level == 10
        _d_levels == dict_update([DEBUG |-> 10, INFO |-> 20, WARNING |-> 30,
                                  ERROR |-> 40, CRITICAL |-> 50],
                                 dict_keys(_initialize_custom_levels))
    IN IF Truthy(name) /\ upper(name) \in DOMAIN _d_levels
       THEN _d_levels[upper(name)]
       ELSE _level

(***************************************************************************)
(* CustomLogger: the factory class methods log and dev_log and the         *)
(* constructor they call.                                                  *)
(***************************************************************************)
\* self._kwargs.get(key, default)
kwargs_get(kwargs, key, default) == IF key \in DOMAIN kwargs THEN kwargs[key] ELSE default

\* _has_configuration_value: whether a configuration file was named (and loaded)
_has_configuration_value(kwargs) == Truthy(kwargs_get(kwargs, "configuration", None))

\* _set_logging: the logger of the name argument, or of the calling function's name,
\* inspect.stack()[1][3], which is "__init__"; the registry afterwards and the name
_set_logging(mgr, kwargs) ==
    LET given == kwargs_get(kwargs, "name", None)
        name == IF Truthy(given) THEN given ELSE "__init__"
    IN [mgr |-> getLogger(mgr, name), _logging |-> name]

\* super.__init__(): the builtin type super, not super(); calling its __init__
\* descriptor without an instance raises
super___init__ == "TypeError"

\* _set_stream_handler: the registry with the StreamHandler added when asked for
_set_stream_handler(mgr, _logging, kwargs) ==
    LET _std_out == kwargs_get(kwargs, "std_out", TRUE)
        _format == kwargs_get(kwargs, "stream_format", None)
        _level == _set_level(kwargs_get(kwargs, "system_level", None))
    IN IF Truthy(_format) /\ _std_out
       THEN addHandler(mgr, _logging,
                       [class |-> "StreamHandler", formatter |-> _format, level |-> _level])
       ELSE mgr

\* _set_file_handler: the registry with the FileHandler added when log_file is given
_set_file_handler(mgr, _logging, kwargs) ==
    LET _file_path == kwargs_get(kwargs, "log_file", None)
        _format == kwargs_get(kwargs, "file_format", None)
        _level == _set_level(kwargs_get(kwargs, "file_level", None))
    IN IF Truthy(_file_path)
       THEN addHandler(mgr, _logging,
                       [class |-> "FileHandler", formatter |-> _format, level |-> _level,
                        baseFilename |-> _file_path])
       ELSE mgr

\* CustomLogger.__init__(**kwargs): the registry afterwards, the instance's logger and
\* the exception raised
CustomLogger_init(mgr, kwargs) ==
    LET config == _has_configuration_value(kwargs)
        set == _set_logging(mgr, kwargs)
    IN IF super___init__ # NoError
       THEN [mgr |-> set.mgr, _logging |-> None, raised |-> super___init__]
       ELSE [mgr |-> IF ~config
                     THEN _set_file_handler(
                              _set_stream_handler(set.mgr, set._logging, kwargs),
                              set._logging, kwargs)
                     ELSE set.mgr,
             _logging |-> set._logging, raised |-> NoError]

\* the two formats filled in when the caller gave none
with_default_formats(kwargs, default_format) ==
    [k \in DOMAIN kwargs \cup {"stream_format", "file_format"} |->
        IF k \in {"stream_format", "file_format"}
           /\ ~Truthy(kwargs_get(kwargs, k, None))
        THEN default_format
        ELSE kwargs[k]]

\* CustomLogger.log(**kwargs) and CustomLogger.dev_log(**kwargs)
CustomLogger_log(mgr, kwargs) ==
    CustomLogger_init(mgr, with_default_formats(kwargs,
        "%(asctime)s [-%(levelname)s-] [%(name)s] %(message)s"))
CustomLogger_dev_log(mgr, kwargs) ==
    CustomLogger_init(mgr, with_default_formats(kwargs,
        "%(asctime)s [%(levelname)s] [%(name)s] [%(thread)d-%(module)s-%(funcName)s] %(message)s"))

(***************************************************************************)
(* The calls on StructLogs instances as a state machine.                    *)
(***************************************************************************)
\* no call is in hand: the caller is between two calls
Idle == [op |-> "idle", self |-> 0, msg |-> "", kwargs |-> NoKwargs, trace |-> <<>>,
         publishes |-> <<>>, lines |-> <<>>, raised |-> NoError]

NoLevelCall == [name |-> None, result |-> 0]

\* no thread shares a facade
NoThreads == [t \in {} |-> 0]

TypeInit ==
    /\ environ \in {NoKwargs} \cup {[SNS_FAILURE |-> t] : t \in Topics}
    /\ loggerDict = [n \in {} |-> 0]
    /\ facades = <<>>
    /\ clients = {}
    /\ last = Idle
    /\ level_call = NoLevelCall
    /\ threads = NoThreads

Init == TypeInit

\* StructLogs(module, team, level)
Construct(module, team, level) ==
    /\ last = Idle
    /\ Len(facades) < MaxFacades
    /\ getLevelName(level) \in DOMAIN nameToLevel   \* setLevel knows the level's name
    /\ LET self == StructLogs_init(module, team, level)
           mgr == setLevel(getLogger(loggerDict, self._logger), self._logger, self._level)
       IN /\ loggerDict' = _add_stream_handler(self, mgr)
          /\ facades' = Append(facades, self)
          /\ last' = [op |-> "__init__", self |-> Len(facades) + 1, msg |-> "",
                      kwargs |-> [module |-> module, team |-> team, level |-> level],
                      trace |-> <<>>, publishes |-> <<>>, lines |-> <<>>,
                      raised |-> NoError]
    /\ UNCHANGED <<environ, clients, level_call, threads>>

\* a call of one of the methods that only delegate to the logger
Delegate(op, i, msg, kwargs, r) ==
    /\ last = Idle
    /\ last' = [op |-> op, self |-> i, msg |-> msg, kwargs |-> kwargs,
                trace |-> [k \in DOMAIN r.lines |-> "write"],
                publishes |-> <<>>, lines |-> r.lines, raised |-> r.raised]
    /\ UNCHANGED <<environ, loggerDict, facades, clients, level_call, threads>>

Status == \E i \in DOMAIN facades, msg \in Msgs, kwargs \in KwargsInputs :
    Delegate("status", i, msg, kwargs, status(facades[i], msg, kwargs))
Debug == \E i \in DOMAIN facades, msg \in Msgs, kwargs \in KwargsInputs :
    Delegate("debug", i, msg, kwargs, debug(facades[i], msg, kwargs))
Info == \E i \in DOMAIN facades, msg \in Msgs, kwargs \in KwargsInputs :
    Delegate("info", i, msg, kwargs, info(facades[i], msg, kwargs))
Warning == \E i \in DOMAIN facades, msg \in Msgs, kwargs \in KwargsInputs :
    Delegate("warning", i, msg, kwargs, warning(facades[i], msg, kwargs))
Error == \E i \in DOMAIN facades, msg \in Msgs, kwargs \in KwargsInputs :
    Delegate("error", i, msg, kwargs, error(facades[i], msg, kwargs))
Critical == \E i \in DOMAIN facades, msg \in Msgs, kwargs \in KwargsInputs :
    Delegate("critical", i, msg, kwargs, critical(facades[i], msg, kwargs))

Exception == \E i \in DOMAIN facades, msg \in Msgs, kwargs \in KwargsInputs :
    \E boto \in BotoOutcomes :
        LET r == exception(facades[i], i, msg, kwargs, boto)
        IN /\ last = Idle
           /\ facades' = [facades EXCEPT ![i] = r.self]
           /\ clients' = clients \cup {r.created[k] : k \in DOMAIN r.created}
           /\ last' = [op |-> "exception", self |-> i, msg |-> msg, kwargs |-> kwargs,
                       trace |-> r.trace, publishes |-> r.publishes, lines |-> r.lines,
                       raised |-> r.raised]
           /\ UNCHANGED <<environ, loggerDict, level_call, threads>>

\* os.environ["SNS_FAILURE"] = topic, by the process around the facades
Setenv(topic) ==
    /\ last = Idle
    /\ environ' = [SNS_FAILURE |-> topic]
    /\ environ' # environ
    /\ UNCHANGED <<loggerDict, facades, clients, last, level_call, threads>>

\* del os.environ["SNS_FAILURE"]
Unsetenv ==
    /\ last = Idle
    /\ "SNS_FAILURE" \in DOMAIN environ
    /\ environ' = NoKwargs
    /\ UNCHANGED <<loggerDict, facades, clients, last, level_call, threads>>

\* the call returns (or its exception reaches the caller), and the caller goes on
Return ==
    /\ last # Idle
    /\ last' = Idle
    /\ UNCHANGED <<environ, loggerDict, facades, clients, level_call, threads>>

Next ==
    \/ \E id \in Identities, level \in Levels : Construct(id.module, id.team, level)
    \/ Status \/ Debug \/ Info \/ Warning \/ Error \/ Critical
    \/ Exception
    \/ \E topic \in Topics : Setenv(topic)
    \/ Unsetenv
    \/ Return

Spec == Init /\ [][Next]_vars

(***************************************************************************)
(* The level lookup on its own: every call of _set_level on a level name.  *)
(***************************************************************************)
\* every spelling of word in upper and lower case letters
RECURSIVE CaseVariants(_)
CaseVariants(word) ==
    IF Len(word) = 0 THEN {""}
    ELSE LET c == CharAt(word, 1)
             firsts == {c} \cup (IF c \in DOMAIN ToLower THEN {ToLower[c]} ELSE {})
                           \cup (IF c \in DOMAIN ToUpper THEN {ToUpper[c]} ELSE {})
         IN {f \o rest : f \in firsts, rest \in CaseVariants(SubSeq(word, 2, Len(word)))}

OtherLevelNames == {None, "", "NOTSET", "WARN", "FATAL", "TRACE", "verbose", "Level 15",
                    "10", "DEBUG ", "INFORMATION"}
DebugSpellings == CaseVariants("DEBUG")
InfoSpellings == CaseVariants("INFO")
WarningSpellings == CaseVariants("WARNING")
ErrorSpellings == CaseVariants("ERROR")
CriticalSpellings == CaseVariants("CRITICAL")
LevelNameInputs ==
    DebugSpellings \cup InfoSpellings \cup WarningSpellings \cup ErrorSpellings
    \cup CriticalSpellings \cup OtherLevelNames

InitLevel ==
    /\ environ = NoKwargs
    /\ loggerDict = [n \in {} |-> 0]
    /\ facades = <<>>
    /\ clients = {}
    /\ last = Idle
    /\ level_call = NoLevelCall
    /\ threads = NoThreads

\* self._set_level(name=name), as _set_stream_handler and _set_file_handler call it
SetLevelCall ==
    /\ \E name \in LevelNameInputs : level_call' = [name |-> name, result |-> _set_level(name)]
    /\ UNCHANGED <<environ, loggerDict, facades, clients, last, threads>>

SpecLevel == InitLevel /\ [][SetLevelCall]_vars

(***************************************************************************)
(* The factory on its own: calls of CustomLogger.log and dev_log without a *)
(* configuration file.                                                     *)
(***************************************************************************)
\* the keyword sets S, and each of them with key given one of vals
WithOption(S, key, vals) == S \cup {kw @@ (key :> v) : kw \in S, v \in vals}

FactoryKwargs ==
    WithOption(WithOption(WithOption(WithOption(WithOption({NoKwargs},
        "name", {"svc", "svc.db"}),
        "std_out", {FALSE}),
        "system_level", {"ERROR"}),
        "stream_format", {"%(message)s"}),
        "log_file", {"/var/log/svc.log"})

InitFactory ==
    /\ environ = NoKwargs
    /\ loggerDict = [n \in {} |-> 0]
    /\ facades = <<>>
    /\ clients = {}
    /\ last = Idle
    /\ level_call = NoLevelCall
    /\ threads = NoThreads

\* a call of one of the factory's class methods: r is what it did
FactoryCall(op, kwargs, r) ==
    /\ loggerDict' = r.mgr
    /\ last' = [op |-> op, kwargs |-> kwargs, returned |-> r._logging, raised |-> r.raised]
    /\ UNCHANGED <<environ, facades, clients, level_call, threads>>

Log == \E kwargs \in FactoryKwargs :
    FactoryCall("log", kwargs, CustomLogger_log(loggerDict, kwargs))
DevLog == \E kwargs \in FactoryKwargs :
    FactoryCall("dev_log", kwargs, CustomLogger_dev_log(loggerDict, kwargs))

NextFactory == Log \/ DevLog

SpecFactory == InitFactory /\ [][NextFactory]_vars

(***************************************************************************)
(* One facade with the topic configured, shared by threads that each make  *)
(* one exception call; a step is one read or write of the instance, or one *)
(* call of the transport, so the threads interleave between them.          *)
(***************************************************************************)
Threads == 1..MaxThreads

\* the instance the threads share, and its number
Shared == 1

BotoReturns == [client |-> "ok", publish |-> "ok"]

InitThreads ==
    /\ environ \in {[SNS_FAILURE |-> t] : t \in Topics}
    /\ \E id \in Identities, level \in Levels :
          LET self == StructLogs_init(id.module, id.team, level)
              mgr == setLevel(getLogger([n \in {} |-> 0], self._logger), self._logger,
                              self._level)
          IN /\ facades = <<self>>
             /\ loggerDict = _add_stream_handler(self, mgr)
    /\ clients = {}
    /\ last = Idle
    /\ level_call = NoLevelCall
    /\ threads = [t \in Threads |-> [pc |-> "call", made |-> None, used |-> None,
                                     lines |-> <<>>]]

\* thread t moves to pc, with the fields of its record given in with
Goto(t, pc, with) ==
    threads' = [threads EXCEPT ![t] =
                   [k \in DOMAIN @ |-> IF k = "pc" THEN pc
                                       ELSE IF k \in DOMAIN with THEN with[k] ELSE @[k]]]

\* exception, lines 172-176: the call is entered and, the topic being set, reaches
\* _send_message_to_sns
EnterException(t) ==
    /\ threads[t].pc = "call"
    /\ Goto(t, IF Truthy(facades[Shared]._failure_topic) THEN "test" ELSE "log", NoKwargs)
    /\ UNCHANGED <<environ, loggerDict, facades, clients, last, level_call>>

\* _send_message_to_sns, line 195: if not self._sns_client
TestClient(t) ==
    /\ threads[t].pc = "test"
    /\ Goto(t, IF ~Truthy(facades[Shared]._sns_client) THEN "client" ELSE "publish", NoKwargs)
    /\ UNCHANGED <<environ, loggerDict, facades, clients, last, level_call>>

\* _set_sns_client, line 210, right-hand side: boto3.client("sns") returns a new client
CallBotoClient(t) ==
    /\ threads[t].pc = "client"
    /\ LET made == _set_sns_client(facades[Shared], Shared, BotoReturns)
       IN /\ clients' = clients \cup {made.created[k] : k \in DOMAIN made.created}
          /\ Goto(t, "store", [made |-> made.self._sns_client])
    /\ UNCHANGED <<environ, loggerDict, facades, last, level_call>>

\* _set_sns_client, line 210, the assignment: self._sns_client = <that client>
StoreClient(t) ==
    /\ threads[t].pc = "store"
    /\ facades' = [facades EXCEPT ![Shared]._sns_client = threads[t].made]
    /\ Goto(t, "publish", NoKwargs)
    /\ UNCHANGED <<environ, loggerDict, clients, last, level_call>>

\* _send_message_to_sns, line 197: self._sns_client.publish(...) on the client the
\* instance holds now
Publish(t) ==
    /\ threads[t].pc = "publish"
    /\ Goto(t, "log", [used |-> facades[Shared]._sns_client])
    /\ UNCHANGED <<environ, loggerDict, facades, clients, last, level_call>>

\* exception, line 178: self._logger.log(logging.ERROR, msg, exc_info=True)
WriteRecord(t) ==
    /\ threads[t].pc = "log"
    /\ \E msg \in Msgs :
          Goto(t, "done",
               [lines |-> Logger_log(facades[Shared]._logger, nameToLevel.ERROR, msg,
                                     [exc_info |-> TRUE]).lines])
    /\ UNCHANGED <<environ, loggerDict, facades, clients, last, level_call>>

NextThreads ==
    \E t \in Threads :
        \/ EnterException(t)
        \/ TestClient(t)
        \/ CallBotoClient(t)
        \/ StoreClient(t)
        \/ Publish(t)
        \/ WriteRecord(t)

SpecThreads == InitThreads /\ [][NextThreads]_vars

(***************************************************************************)
(* The claims.                                                             *)
(***************************************************************************)
Delegating == {"status", "debug", "info", "warning", "error", "critical"}
DispatchErrors == {"BotoCoreError", "ClientError"}

\* the instance the call in hand was made on, and what holds of it
Self == facades[last.self]
Configured == Truthy(Self._failure_topic)
ErrorEnabled == loggerDict[Self._logger].level <= nameToLevel.ERROR
OnException == last.op = "exception"

\* line is a structured record of the call in hand at level ERROR
IsErrorRecord(line) ==
    /\ json_get(line.json, "message_type") = "ERROR"
    /\ json_get(line.json, "message") = last.msg
    /\ json_has(line.json, "team") /\ json_has(line.json, "module")
    /\ json_has(line.json, "utc_time_stamp")

\* C1: at most one console sink (StreamHandler) is attached to the logger of any
\* identity "{team}.{module}", however often StructLogs is constructed for it.
C1_AtMostOneSink ==
    \A name \in DOMAIN loggerDict : Len(loggerDict[name].handlers) <= 1

\* C2 as claimed: with the topic configured every exception call makes exactly one
\* publish attempt, and no other leveled call makes any.
C2_OnePublishPerException ==
    /\ last.op \in Delegating => last.publishes = <<>>
    /\ OnException /\ Configured => Len(last.publishes) = 1

\* C2 as amended: with the topic configured an exception call makes exactly one publish
\* attempt unless constructing the transport client raises in that call, and then none;
\* debug, info, status, warning, error and critical never make one.
C2_OnePublishUnlessNoClient ==
    /\ last.op \in Delegating => last.publishes = <<>>
    /\ OnException /\ Configured =>
           Len(last.publishes) = (IF last.raised = "BotoCoreError" THEN 0 ELSE 1)
    /\ OnException /\ ~Configured => last.publishes = <<>>

C2_Witness ==
    /\ OnException /\ Configured
    /\ Len(last.publishes) = 1
    /\ last.raised = NoError

C4_SinkWriteSurvivesDispatchFailure ==
    OnException /\ Configured /\ last.raised \in DispatchErrors /\ ErrorEnabled =>
        /\ Len(last.lines) >= 1
        /\ \A k \in DOMAIN last.lines : IsErrorRecord(last.lines[k])

\* C5: debug, info, status, warning, error and critical never raise, and exception
\* raises only when dispatch fails, so never without a topic.
C5_NeverRaises ==
    /\ last.op \in Delegating => last.raised = NoError
    /\ OnException => last.raised \in {NoError} \cup DispatchErrors
    /\ OnException /\ ~Configured => last.raised = NoError

\* C6: an instance constructs its transport client at most once and uses that client in
\* every publish; after an exception call that returned with the topic configured it
\* has constructed exactly one.
C6_ClientConstructedOnce ==
    /\ \A i \in DOMAIN facades :
           /\ Cardinality(ClientsOf(i)) <= 1
           /\ \A c \in ClientsOf(i) : c.handle = facades[i]._sns_client
           /\ ClientsOf(i) = {} => facades[i]._sns_client = None
    /\ OnException /\ Configured /\ last.raised = NoError =>
           /\ Cardinality(ClientsOf(last.self)) = 1
           /\ \A k \in DOMAIN last.publishes : last.publishes[k].client = Self._sns_client

\* a later exception call that published through the client an earlier call constructed
C6_Witness ==
    /\ OnException /\ Configured /\ last.raised = NoError
    /\ last.trace = <<"publish", "write">>
    /\ Cardinality(ClientsOf(last.self)) = 1

\* whether the call in hand went to the transport
Dispatched == last.publishes # <<>> \/ last.raised \in DispatchErrors

\* an exception call dispatches exactly when its instance holds a topic, and to that topic
DispatchFollowsOwnTopic ==
    OnException =>
        /\ Dispatched <=> Configured
        /\ \A k \in DOMAIN last.publishes : last.publishes[k].TopicArn = Self._failure_topic

\* C7: no step, be it a call on any instance or a change of SNS_FAILURE in the
\* environment, changes the team, module or topic of an instance, and every exception
\* call dispatches according to the topic its instance read at construction.
C7_TopicFixedAtConstruction ==
    [][/\ \A i \in DOMAIN facades :
              /\ facades'[i]._failure_topic = facades[i]._failure_topic
              /\ facades'[i]._team = facades[i]._team
              /\ facades'[i]._module = facades[i]._module
       /\ DispatchFollowsOwnTopic']_vars

\* an exception call published to its instance's topic though the environment names another
C7_Witness ==
    /\ OnException /\ last.publishes # <<>>
    /\ "SNS_FAILURE" \in DOMAIN environ
    /\ environ.SNS_FAILURE # Self._failure_topic
    /\ last.publishes[1].TopicArn = Self._failure_topic

\* the snow_team the call in hand asks for
WantedSnowTeam ==
    IF "destination" \in DOMAIN last.kwargs THEN last.kwargs.destination ELSE "developer"

\* C8: the payload exception publishes carries snow_team "developer" when no destination
\* keyword is given and the given destination otherwise, in the JSON body and in the
\* attribute map.
C8_SnowTeamIsDestination ==
    OnException =>
        \A k \in DOMAIN last.publishes :
            /\ json_get(last.publishes[k].Message, "snow_team") = WantedSnowTeam
            /\ dict_get(last.publishes[k].MessageAttributes, "snow_team")
                   = [DataType |-> "string", StringValue |-> WantedSnowTeam]

C8_Witness ==
    /\ OnException /\ last.publishes # <<>>
    /\ last.kwargs = [destination |-> "data_steward"]
    /\ json_get(last.publishes[1].Message, "snow_team") = "data_steward"

\* C9: the constructor lowercases team and module and names the logger
\* "{team}.{module}": TEST and Subscribe.LOG give "test.subscribe.log", the logger of
\* test and subscribe.log, so every logger carries one handler per instance of its name.
C9_LowercasedIdentity ==
    /\ last.op = "__init__" /\ last.kwargs.team = "TEST" /\ last.kwargs.module = "Subscribe.LOG" =>
           /\ Self._team = "test" /\ Self._module = "subscribe.log"
           /\ Self._logger = "test.subscribe.log"
    /\ last.op = "__init__" /\ last.kwargs.team = "test" /\ last.kwargs.module = "subscribe.log" =>
           Self._logger = "test.subscribe.log"
    /\ \A i \in DOMAIN facades : facades[i]._logger \in DOMAIN loggerDict
    /\ \A name \in DOMAIN loggerDict :
           Len(loggerDict[name].handlers)
               = Cardinality({i \in DOMAIN facades : facades[i]._logger = name})

\* a construction from TEST and Subscribe.LOG that found the logger of an earlier instance
C9_Witness ==
    /\ last.op = "__init__" /\ last.kwargs.team = "TEST" /\ last.kwargs.module = "Subscribe.LOG"
    /\ last.self = 2
    /\ facades[1]._logger = Self._logger
    /\ Len(loggerDict["test.subscribe.log"].handlers) = 2

\* the level a level name stands for, whatever its letter case, and 10 for any other name
ExpectedLevel(name) ==
    IF name \in InfoSpellings THEN 20
    ELSE IF name \in WarningSpellings THEN 30
    ELSE IF name \in ErrorSpellings THEN 40
    ELSE IF name \in CriticalSpellings THEN 50
    ELSE 10

\* C10: _set_level returns the numeric level of DEBUG, INFO, WARNING, ERROR or CRITICAL
\* in any letter case, and 10 for every other name, None and the empty string included.
C10_SetLevelLookup ==
    level_call # NoLevelCall => level_call.result = ExpectedLevel(level_call.name)

C10_Witness ==
    /\ level_call.name = "wArNiNg"
    /\ level_call.result = 30

OnFactoryCall == last.op \in {"log", "dev_log"}

\* C11: a call of CustomLogger.log or CustomLogger.dev_log without a configuration file
\* does not raise and returns the logger named by the name argument, which has a
\* console stream handler unless std_out is false, and a file handler exactly when
\* log_file is given.
C11_FactoryReturnsLogger ==
    OnFactoryCall =>
        /\ last.raised = NoError
        /\ "name" \in DOMAIN last.kwargs => last.returned = last.kwargs.name
        /\ last.returned \in DOMAIN loggerDict
        /\ LET handlers == loggerDict[last.returned].handlers
           IN /\ kwargs_get(last.kwargs, "std_out", TRUE)
                     => \E i \in DOMAIN handlers : handlers[i].class = "StreamHandler"
              /\ "log_file" \in DOMAIN last.kwargs
                     <=> \E i \in DOMAIN handlers : handlers[i].class = "FileHandler"

\* the clients the threads have published with
UsedClients == {threads[t].used : t \in DOMAIN threads} \ {None}

\* C12: when threads share one facade with the topic configured and make their first
\* exception calls concurrently, the facade constructs at most one transport client
\* and all publishes use the same client.
C12_LazyInitOnce ==
    /\ Cardinality(ClientsOf(Shared)) <= 1
    /\ Cardinality(UsedClients) <= 1

\* C13: in an exception call on an instance with the topic configured, the publish
\* comes before every sink write of that call: a record is written only after the
\* call's one publish has returned, and none is written when dispatch raised.
C13_PublishBeforeWrite ==
    OnException /\ Configured =>
        /\ \A i, j \in DOMAIN last.trace :
              last.trace[i] = "write" /\ last.trace[j] = "publish" => j < i
        /\ last.lines # <<>> =>
              /\ \E j \in DOMAIN last.trace : last.trace[j] = "publish"
              /\ last.raised = NoError
        /\ last.raised \in DispatchErrors => last.lines = <<>>

C13_Witness ==
    /\ OnException /\ Configured
    /\ Len(last.publishes) = 1
    /\ last.lines # <<>>
    /\ last.trace[Len(last.trace)] = "write"
    /\ \E j \in DOMAIN last.trace : last.trace[j] = "publish"

\* the severity each leveled method logs at
OpLevel == [status |-> nameToLevel.INFO, debug |-> nameToLevel.DEBUG,
            info |-> nameToLevel.INFO, warning |-> nameToLevel.WARNING,
            error |-> nameToLevel.ERROR, exception |-> nameToLevel.ERROR,
            critical |-> nameToLevel.CRITICAL]

\* instance number i is the most recently constructed one of its identity
MostRecent(i) == \A j \in DOMAIN facades : j > i => facades[j]._logger # facades[i]._logger

\* C14: the level of the process-wide logger of an identity is the level passed to the
\* most recent construction with that identity, so a call on any instance of the
\* identity below that level writes nothing, whatever level that instance was
\* constructed with.
C14_SharedLevelIsLastConstructed ==
    /\ \A i \in DOMAIN facades :
          MostRecent(i) => loggerDict[facades[i]._logger].level = nameToLevel[facades[i]._level]
    /\ last.op = "__init__" => loggerDict[Self._logger].level = last.kwargs.level
    /\ last.op \in DOMAIN OpLevel /\ OpLevel[last.op] < loggerDict[Self._logger].level
          => last.lines = <<>>

C14_Witness ==
    /\ last.op = "debug" /\ last.self = 1 /\ last.kwargs = NoKwargs
    /\ Len(facades) = 2
    /\ facades[2]._logger = facades[1]._logger
    /\ facades[1]._level = "DEBUG" /\ facades[2]._level = "CRITICAL"
    /\ loggerDict[facades[1]._logger].level = nameToLevel.CRITICAL
    /\ last.raised = NoError /\ last.lines = <<>>

====
